---- MODULE Spec2Model ----
(***************************************************************************)
(* A model of scripts/update_jobs_pages.py: the batch loop of main         *)
(* (checkpointed, wrapping window over the rows of a CSV table) and the    *)
(* discovery of one organization's jobs page (find_jobs_page and its three *)
(* tiers, the candidate scorer and the page validator).                    *)
(*                                                                         *)
(* Strings are TLA+ strings.  The substring, strip and urlparse facts the  *)
(* code computes on them are tabulated for the strings of the catalogue    *)
(* below (Hits, Slashes, Strip, urlparse, ...).  A remote site is the      *)
(* variable web, fixed for a run; whether one GET of a page succeeds is    *)
(* chosen anew at every request.                                           *)
(***************************************************************************)
EXTENDS Integers, Sequences, FiniteSets, TLC

(***************************************************************************)
(* Bounds of the model.                                                    *)
(***************************************************************************)
MaxRows == 2        \* longest table (n ranges over 0..MaxRows)
MaxBatch == 3       \* MAX_ROWS ranges over -1..MaxBatch
MaxStart == 3       \* a stored next_start_row ranges over -1..MaxStart

(***************************************************************************)
(* Program constants.                                                      *)
(***************************************************************************)
GOOD_URL_HINTS ==
    {"career", "careers", "job", "jobs", "vacanc", "recruit", "work-with-us",
     "work-for-us", "working-for-us", "join-our-team", "join-us", "opportunit",
     "vacancy"}

BAD_URL_HINTS ==
    {"membership", "member", "join-our-community", "donate", "shop", "volunteer",
     "training", "event", "news", "blog", "press", "privacy", "cookie", "terms"}

GOOD_TEXT_HINTS ==
    {"vacancies", "jobs", "careers", "work with us", "join our team", "recruitment",
     "current opportunities", "latest vacancies", "apply now", "closing date", "salary"}

COMMON_PATHS ==
    <<"/careers", "/jobs", "/vacancies", "/recruitment", "/work-with-us",
      "/work-for-us", "/working-for-us", "/join-our-team", "/join-us",
      "/about/work-with-us", "/about-us/join-our-team">>

\* the keywords score_candidate looks for
SCORE_GOOD ==
    {"vacanc", "career", "jobs", "recruit", "work-with-us", "work for us", "join our team"}

SITEMAP_TOP == 6
HOMEPAGE_TOP == 8
BEST_SCORE_INIT == 0 - 999

(***************************************************************************)
(* Cells of the table.  A text cell is a string; NaN is pandas' float nan  *)
(* (an empty CSV field as read_csv returns it), which is not a str.  The   *)
(* Vacancies_Confidence cell is a number, NoConf standing for an empty one.*)
(***************************************************************************)
NaN == "<float nan>"
NoConf == 0 - 1

\* isinstance(x, str)
IsStr(x) == x # NaN

(***************************************************************************)
(* The catalogue: the strings the model runs the program on.               *)
(***************************************************************************)
SiteRoot == "https://a.org"
SM_XML == SiteRoot \o "/sitemap.xml"
SM_INDEX == SiteRoot \o "/sitemap_index.xml"

\* s.strip()
Strip(s) ==
    CASE s = "  " -> ""
      [] s = " a.org " -> "a.org"
      [] OTHER -> s

\* re.match(r"^https?://", u, re.I)
HasScheme(u) == u \in {"https://www.a.org/about", "http://["}

\* urlparse(u): scheme and netloc, or the ValueError urlsplit raises on an
\* unbalanced bracket in the netloc ("Invalid IPv6 URL")
urlparse(u) ==
    CASE u = "https://a.org" -> [raises |-> FALSE, scheme |-> "https", netloc |-> "a.org"]
      [] u = "https://www.a.org/about" -> [raises |-> FALSE, scheme |-> "https", netloc |-> "www.a.org"]
      [] u = "https://nan" -> [raises |-> FALSE, scheme |-> "https", netloc |-> "nan"]
      [] u = "http://[" -> [raises |-> TRUE, scheme |-> "", netloc |-> ""]
      [] u = "https://www.a.org/jobs/" -> [raises |-> FALSE, scheme |-> "https", netloc |-> "www.a.org"]
      [] u = "https://jobs.a.org/" -> [raises |-> FALSE, scheme |-> "https", netloc |-> "jobs.a.org"]
      [] u = "https://other.org/jobs" -> [raises |-> FALSE, scheme |-> "https", netloc |-> "other.org"]
      [] OTHER -> [raises |-> FALSE, scheme |-> "https", netloc |-> "a.org"]

\* host.replace("www.", "")
StripWww(host) == IF host = "www.a.org" THEN "a.org" ELSE host

\* c.endswith("." + r)
EndsWithDot(c, r) == c = "jobs.a.org" /\ r = "a.org"

\* the hint substrings that occur in s.lower()
Hits(s) ==
    CASE s = "https://a.org/careers" -> {"career", "careers"}
      [] s = "https://a.org/jobs" -> {"job", "jobs"}
      [] s = "https://a.org/vacancies" -> {"vacanc", "vacancies"}
      [] s = "https://a.org/recruitment" -> {"recruit", "recruitment"}
      [] s = "https://a.org/work-with-us" -> {"work-with-us"}
      [] s = "https://a.org/careers/vacancies" -> {"career", "careers", "vacanc", "vacancies"}
      [] s = "https://www.a.org/jobs/" -> {"job", "jobs"}
      [] s = "https://jobs.a.org/" -> {"job", "jobs"}
      [] s = "https://a.org/news/jobs" -> {"job", "jobs", "news"}
      [] s = "https://a.org/opportunities" -> {"opportun", "opportunit"}
      [] s = "https://other.org/jobs" -> {"job", "jobs"}
      [] s = "https://a.org/join-us" -> {"join-us"}
      [] s = "Careers" -> {"career", "careers"}
      [] s = "Work with us" -> {"work with us"}
      [] s = "Latest news" -> {"news"}
      [] s = "Join our team" -> {"join our team"}
      [] s = "Jobs" -> {"job", "jobs"}
      [] s = "Current vacancies" -> {"vacanc", "vacancies"}
      [] OTHER -> {}

\* h in s.lower()
In(h, s) == h \in Hits(s)

\* lu.count("/")
Slashes(u) ==
    CASE u \in {"https://a.org/careers/vacancies", "https://www.a.org/jobs/",
                "https://a.org/news/jobs"} -> 4
      [] u = "" -> 0
      [] OTHER -> 3

\* urljoin(root + "/", href)
urljoin(root, href) ==
    CASE href = "/careers" -> root \o "/careers"
      [] href = "jobs" -> root \o "/jobs"
      [] href = "/vacancies" -> root \o "/vacancies"
      [] href = "/recruitment" -> root \o "/recruitment"
      [] href = "/work-with-us" -> root \o "/work-with-us"
      [] href = "/careers/vacancies" -> root \o "/careers/vacancies"
      [] href = "/news/jobs" -> root \o "/news/jobs"
      [] href = "/about" -> root \o "/about"
      [] href = "/opportunities" -> root \o "/opportunities"
      [] OTHER -> href

Max(a, b) == IF a >= b THEN a ELSE b
Min(a, b) == IF a <= b THEN a ELSE b

(***************************************************************************)
(* Helpers of the program.                                                 *)
(***************************************************************************)
\* norm_root: the root, or the ValueError of urlparse, which norm_root does
\* not catch
norm_root(url) ==
    IF ~IsStr(url) \/ Strip(url) = ""
    THEN [raises |-> FALSE, root |-> ""]
    ELSE LET u == Strip(url)
             u2 == IF HasScheme(u) THEN u ELSE "https://" \o u
             p == urlparse(u2)
         IN  IF p.raises
             THEN [raises |-> TRUE, root |-> ""]
             ELSE [raises |-> FALSE, root |-> p.scheme \o "://" \o StripWww(p.netloc)]

same_site(root, candidate) ==
    LET pr == urlparse(root)
        pc_ == urlparse(candidate)
        r == StripWww(pr.netloc)
        c == StripWww(pc_.netloc)
    IN  IF pr.raises \/ pc_.raises THEN FALSE ELSE r = c \/ EndsWithDot(c, r)

looks_jobish(url) ==
    IF \E bad \in BAD_URL_HINTS : In(bad, url)
    THEN FALSE
    ELSE \E g \in GOOD_URL_HINTS : In(g, url)

score_candidate(url, anchor_text) ==
    12 * Cardinality({good \in SCORE_GOOD : In(good, url)})
    + 10 * Cardinality({good \in SCORE_GOOD : In(good, anchor_text)})
    + (IF In("opportun", url) \/ In("opportun", anchor_text) THEN 6 ELSE 0)
    - 40 * Cardinality({bad \in BAD_URL_HINTS : In(bad, url) \/ In(bad, anchor_text)})
    + Max(0, 10 - Slashes(url))

(***************************************************************************)
(* The page validator.  A response to the GET of a page is a record: ok    *)
(* (the fetch and the parse succeeded) and the four content signals the    *)
(* validator tests (a title keyword, an application keyword, a vacancies   *)
(* keyword and a negative text hint in the body).                          *)
(***************************************************************************)
FetchFailed == [ok |-> FALSE, title |-> FALSE, apply |-> FALSE, vac |-> FALSE, bad |-> FALSE]

PageResponses ==
    {FetchFailed} \cup [ok : {TRUE}, title : BOOLEAN, apply : BOOLEAN, vac : BOOLEAN, bad : BOOLEAN]

ClampNone(c) == c

\* max(0, min(100, confidence))
Clamp(c) == Max(0, Min(100, c))

validate_jobs_page(resp) ==
    IF ~resp.ok
    THEN [confidence |-> 0, type |-> "unreachable"]
    ELSE LET raw == 30 + (IF resp.title THEN 25 ELSE 0)
                       + (IF resp.apply THEN 25 ELSE 0)
                       + (IF resp.vac THEN 20 ELSE 0)
                       - (IF resp.bad THEN 35 ELSE 0)
             confidence == Clamp(raw)
         IN  IF confidence >= 70 THEN [confidence |-> confidence, type |-> "jobs_page"]
             ELSE IF confidence >= 45 THEN [confidence |-> confidence, type |-> "maybe_jobs"]
             ELSE [confidence |-> confidence, type |-> "unlikely_jobs"]

(***************************************************************************)
(* Lists: dict.fromkeys de-duplication, the stable descending sort of      *)
(* sorted(..., reverse=True), and the best-candidate loop.  A candidate is *)
(* a record [url, text, score], score being score_candidate(url, text).    *)
(***************************************************************************)
Member(x, s) == \E k \in 1..Len(s) : s[k] = x

RECURSIVE DedupeFrom(_, _, _)
DedupeFrom(s, k, acc) ==
    IF k > Len(s) THEN acc
    ELSE DedupeFrom(s, k + 1, IF Member(s[k], acc) THEN acc ELSE Append(acc, s[k]))

\* list(dict.fromkeys(s))
Dedupe(s) == DedupeFrom(s, 1, <<>>)

\* x goes behind every element whose score is at least its own
RECURSIVE InsertDesc(_, _)
InsertDesc(s, x) ==
    IF s = <<>> THEN <<x>>
    ELSE IF Head(s).score >= x.score THEN <<Head(s)>> \o InsertDesc(Tail(s), x)
    ELSE <<x>> \o s

RECURSIVE SortFrom(_, _, _)
SortFrom(s, k, acc) ==
    IF k > Len(s) THEN acc ELSE SortFrom(s, k + 1, InsertDesc(acc, s[k]))

\* sorted(s, key=score, reverse=True)
SortedDesc(s) == SortFrom(s, 1, <<>>)

\* s[:n]
Take(s, n) == SubSeq(s, 1, Min(n, Len(s)))

BetterOrEqual(combined, best_score) == combined >= best_score

\* if combined > best_score
Better(combined, best_score) == combined > best_score

(***************************************************************************)
(* The remote site.  A response to a GET of text is [ok, body]: robots.txt *)
(* is a list of lines [field, value], a sitemap the list of its <loc>      *)
(* entries (extract_sitemap_urls), the homepage the list of its a[href]    *)
(* anchors [href, text].  A response to a HEAD is [raised, url].           *)
(***************************************************************************)
Failed == [ok |-> FALSE, body |-> <<>>]
Ok(body) == [ok |-> TRUE, body |-> body]

P(title, apply, vac, bad) ==
    [ok |-> TRUE, title |-> title, apply |-> apply, vac |-> vac, bad |-> bad]

\* what the pages of the site hold
PageOf(url) ==
    CASE url = "https://a.org/careers" -> P(TRUE, FALSE, FALSE, FALSE)
      [] url = "https://a.org/jobs" -> P(TRUE, TRUE, FALSE, FALSE)
      [] url = "https://jobs.a.org/" -> P(TRUE, TRUE, FALSE, FALSE)
      [] url = "https://a.org/vacancies" -> P(TRUE, TRUE, TRUE, FALSE)
      [] url = "https://a.org/recruitment" -> P(FALSE, FALSE, FALSE, TRUE)
      [] url = "https://a.org/careers/vacancies" -> P(TRUE, FALSE, TRUE, FALSE)
      [] url = "https://www.a.org/jobs/" -> P(TRUE, TRUE, FALSE, TRUE)
      [] url = "https://a.org/news/jobs" -> P(FALSE, FALSE, TRUE, TRUE)
      [] url = "https://a.org/opportunities" -> P(FALSE, TRUE, FALSE, FALSE)
      [] url = "https://a.org/join-us" -> P(FALSE, TRUE, TRUE, FALSE)
      [] OTHER -> P(FALSE, FALSE, FALSE, FALSE)

RobotsTexts ==
    { Failed,
      Ok(<< [field |-> "User-agent", value |-> "*"] >>),
      Ok(<< [field |-> "User-agent", value |-> "*"],
            [field |-> "Sitemap", value |-> SM_INDEX],
            [field |-> "sitemap", value |-> SM_XML] >>) }

LocsLong ==
    << "https://a.org/about", "https://a.org/careers", "https://other.org/jobs",
       "https://a.org/jobs", "https://a.org/careers", "https://a.org/news/jobs",
       "https://a.org/opportunities", "https://a.org/careers/vacancies",
       "https://jobs.a.org/", "https://www.a.org/jobs/", "https://a.org/vacancies",
       "https://a.org/recruitment" >>
LocsTwo == << "https://a.org/jobs", "https://jobs.a.org/" >>
LocsOne == << "https://a.org/jobs" >>
LocsOther == << "https://a.org/about" >>

SitemapXmls == { Failed, Ok(<<>>), Ok(LocsLong), Ok(LocsTwo), Ok(LocsOther) }
SitemapIndexes == { Failed, Ok(<<>>), Ok(<< "https://a.org/opportunities" >>), Ok(LocsOther) }

A(href, text) == [href |-> href, text |-> text]

AnchorsLong ==
    << A("/about", "About"), A("/careers", "Careers"), A("", "Jobs"),
       A("https://other.org/jobs", "Jobs"), A("jobs", "Jobs"), A("/careers", "Careers"),
       A("/careers", "Work with us"), A("/news/jobs", "Latest news"),
       A("/news/jobs", "Jobs"), A("/vacancies", "Current vacancies"),
       A("/recruitment", "Join our team"), A("/work-with-us", "Work with us"),
       A("/opportunities", "About"), A("/careers/vacancies", "Careers") >>
AnchorsShort == << A("/about", "Jobs") >>

Homepages == { Failed, Ok(<<>>), Ok(AnchorsLong), Ok(AnchorsShort) }

Resolves(url) == [raised |-> FALSE, url |-> url]
Raises == [raised |-> TRUE, url |-> ""]
NotFound == [raised |-> FALSE, url |-> ""]

PathSet == { COMMON_PATHS[j] : j \in 1..Len(COMMON_PATHS) }

HeadNone == [p \in PathSet |-> NotFound]
HeadCareers ==
    [p \in PathSet |-> IF p = "/careers" THEN Resolves("https://a.org/careers") ELSE NotFound]
HeadMixed ==
    [p \in PathSet |->
        CASE p = "/careers" -> Raises
          [] p = "/recruitment" -> Resolves("https://a.org/recruitment")
          [] p = "/work-with-us" -> Resolves("https://a.org/work-with-us")
          [] p = "/join-us" -> Resolves("https://a.org/join-us")
          [] OTHER -> NotFound]

Heads == { HeadNone, HeadCareers, HeadMixed }

Site(robots, xml, index, home, head) ==
    [robots |-> robots, sm |-> (SM_XML :> xml) @@ (SM_INDEX :> index), home |-> home,
     head |-> head]

\* a site whose sitemap.xml lists its jobs page and nothing else answers
SmallSite == Site(Failed, Ok(LocsOne), Failed, Failed, HeadNone)
PlainWebs == { SmallSite }

\* sites without a job-looking sitemap entry
NoSitemapEntries ==
    { <<Failed, Failed, Failed>>,
      <<Ok(<< [field |-> "Sitemap", value |-> SM_INDEX] >>), Failed, Ok(LocsOther)>>,
      <<Ok(<<>>), Ok(LocsOther), Ok(<<>>)>> }

\* the sites: every robots.txt and sitemap with nothing else answering, every
\* homepage and every set of common paths behind sitemaps that list no job
Webs ==
    { Site(r, x, i, Failed, HeadNone) : r \in RobotsTexts, x \in SitemapXmls, i \in SitemapIndexes }
    \cup { Site(s[1], s[2], s[3], h, HeadNone) : s \in NoSitemapEntries, h \in Homepages }
    \cup { Site(s[1], s[2], s[3], h, hd) :
             s \in NoSitemapEntries, h \in {Failed, Ok(<<>>)}, hd \in Heads }
    \cup PlainWebs

(***************************************************************************)
(* The CSV file: the columns it has and its rows, each field as written    *)
(* ("" an empty field).                                                    *)
(***************************************************************************)
VacancyCols == {"Vacancies", "Vacancies_Confidence", "Vacancies_Type", "Vacancies_Sitemap"}

Row(url, vacancies, confidence, type, sitemap) ==
    [URL |-> url, Vacancies |-> vacancies, Vacancies_Confidence |-> confidence,
     Vacancies_Type |-> type, Vacancies_Sitemap |-> sitemap]

Unresolved(url, vacancies) == Row(url, vacancies, NoConf, "", "")

RowKinds ==
    { Row("a.org", "https://a.org/jobs", 80, "jobs_page", SM_XML),
      Row("a.org", "https://a.org/careers", NoConf, "", ""),
      Unresolved("a.org", ""),
      Unresolved("https://www.a.org/about", "  "),
      Unresolved("", ""),
      Unresolved("  ", ""),
      Unresolved("http://[", "") }

RECURSIVE Tables(_)
Tables(n) ==
    IF n = 0 THEN { <<>> }
    ELSE Tables(n - 1) \cup { Append(t, r) : t \in { u \in Tables(n - 1) : Len(u) = n - 1 }, r \in RowKinds }

AllCols == {"URL"} \cup VacancyCols

NoState == [exists |-> FALSE, next_start_row |-> 0, rows_processed_last_run |-> 0,
            rows_updated_last_run |-> 0]

NoRes == [vacancies |-> "", confidence |-> NoConf, type |-> "", sitemap |-> ""]

(***************************************************************************)
(* State.                                                                  *)
(*   csv_file, state_file   the table on disk (INPUT_CSV = OUTPUT_CSV) and *)
(*                          the checkpoint at STATE_PATH                   *)
(*   max_rows, web          MAX_ROWS of this installation; the remote site *)
(*   pc                     where main is                                  *)
(*   df .. checked          the locals of main; k is the position in       *)
(*                          indices of the row the loop is at              *)
(*   org_url .. res         the locals of the call of find_jobs_page       *)
(*   top .. best_score      the locals of the tier that is validating its  *)
(*                          candidates; pos is the position in top         *)
(* and what the run has done so far, kept for the properties:              *)
(*   runs       runs of main started                                       *)
(*   df0        the table as this run loaded it                            *)
(*   csv0, state0   the two files as they were when this run started       *)
(*   processed  the row indices the loop has been through, in order        *)
(*   results    the rows find_jobs_page was called for, with what it       *)
(*              returned                                                   *)
(*   calls      the tiers the current call of find_jobs_page has run, each *)
(*              with the URL it yielded                                    *)
(*   requests   the network requests the current call has issued           *)
(*   fetched    the URLs the validator fetched successfully in that call   *)
(*   cands, validated   the candidates of the tier last run (de-duplicated,*)
(*              first-seen order) and the ones it validated, each with the *)
(*              confidence the validator returned                          *)
(***************************************************************************)
VARIABLES csv_file, state_file, max_rows, web, pc,
          df, start, run_len, indices, k, updated, checked,
          org_url, root, jobs_url, sitemap_used, res,
          top, pos, best_url, best_score,
          runs, df0, csv0, state0, processed, results, calls, requests, fetched, cands, validated,
          val_in, val_out

envVars == <<max_rows, web>>
fileVars == <<csv_file, state_file>>
loopVars == <<df, start, run_len, indices, updated, checked, df0, csv0, state0, results>>
fjpVars == <<org_url, root, jobs_url, sitemap_used, res>>
tierVars == <<top, pos, best_url, best_score>>
obsVars == <<calls, requests, fetched, cands, validated>>
valVars == <<val_in, val_out>>
vars == <<csv_file, state_file, max_rows, web, pc, df, start, run_len, indices, k, updated,
          checked, org_url, root, jobs_url, sitemap_used, res, top, pos, best_url, best_score, runs, df0, csv0, state0, processed,
          results, calls, requests, fetched, cands, validated, val_in, val_out>>

MaxRuns == 2        \* runs of main in one behaviour

StoredStates ==
    { NoState } \cup
    { [exists |-> TRUE, next_start_row |-> s, rows_processed_last_run |-> 0,
       rows_updated_last_run |-> 0] : s \in (0 - 1)..MaxStart }

\* a file without a column has none of its fields: one with all the columns,
\* one with URL and Vacancies only, one with URL only
CsvFiles ==
    { [columns |-> AllCols, rows |-> t] : t \in Tables(MaxRows) } \cup
    { [columns |-> {"URL", "Vacancies"}, rows |-> t] :
        t \in { u \in Tables(MaxRows) :
                  \A j \in 1..Len(u) : u[j] = Unresolved(u[j].URL, u[j].Vacancies) } } \cup
    { [columns |-> {"URL"}, rows |-> t] :
        t \in { u \in Tables(MaxRows) :
                  \A j \in 1..Len(u) : u[j] = Unresolved(u[j].URL, "") } }

\* the installations the model starts from: any table, checkpoint and batch
\* size against a plain site, or one unresolved organization against any site
Installations ==
    { [csv |-> c, state |-> st, max_rows |-> m, web |-> w] :
        c \in CsvFiles, st \in StoredStates, m \in (0 - 1)..MaxBatch, w \in PlainWebs }
    \cup
    { [csv |-> [columns |-> AllCols, rows |-> << Unresolved("a.org", "") >>],
       state |-> NoState, max_rows |-> 0, web |-> w] : w \in Webs }

Idle ==
    /\ df = <<>> /\ df0 = <<>> /\ csv0 = csv_file /\ state0 = state_file
    /\ start = 0 /\ run_len = 0 /\ indices = <<>> /\ k = 1
    /\ updated = 0 /\ checked = 0
    /\ processed = <<>> /\ results = <<>>
    /\ org_url = "" /\ root = "" /\ jobs_url = "" /\ sitemap_used = "" /\ res = NoRes
    /\ top = <<>> /\ pos = 1 /\ best_url = "" /\ best_score = BEST_SCORE_INIT
    /\ calls = <<>> /\ requests = 0 /\ fetched = {} /\ cands = <<>> /\ validated = <<>>

Init ==
    /\ \E inst \in Installations :
          /\ csv_file = inst.csv
          /\ state_file = inst.state
          /\ max_rows = inst.max_rows
          /\ web = inst.web
    /\ pc = "start"
    /\ Idle
    /\ runs = 1
    /\ val_in = FetchFailed /\ val_out = [confidence |-> 0, type |-> ""]

(***************************************************************************)
(* The table and the checkpoint.                                           *)
(***************************************************************************)
\* pandas reads an empty field as nan
ReadField(x) == IF x = "" THEN NaN ELSE x

\* and writes nan (and "") as an empty field
WriteField(x) == IF x = NaN THEN "" ELSE x

read_csv(file) ==
    [j \in 1..Len(file.rows) |->
        LET r == file.rows[j]
        IN  Row(ReadField(r.URL), ReadField(r.Vacancies), r.Vacancies_Confidence,
                ReadField(r.Vacancies_Type), ReadField(r.Vacancies_Sitemap))]

\* a column the file lacks is created with "" in every row
ensure_cols(rows, columns) ==
    [j \in 1..Len(rows) |->
        LET r == rows[j]
        IN  Row(r.URL,
                IF "Vacancies" \in columns THEN r.Vacancies ELSE "",
                IF "Vacancies_Confidence" \in columns THEN r.Vacancies_Confidence ELSE NoConf,
                IF "Vacancies_Type" \in columns THEN r.Vacancies_Type ELSE "",
                IF "Vacancies_Sitemap" \in columns THEN r.Vacancies_Sitemap ELSE "")]

to_csv(rows) ==
    [columns |-> AllCols,
     rows |-> [j \in 1..Len(rows) |->
                 LET r == rows[j]
                 IN  Row(WriteField(r.URL), WriteField(r.Vacancies), r.Vacancies_Confidence,
                         WriteField(r.Vacancies_Type), WriteField(r.Vacancies_Sitemap))]]

\* load_state(): the stored record, or {"next_start_row": 0}
load_state == IF state_file.exists THEN state_file ELSE NoState

\* list(range(a, b))
Range(a, b) == [j \in 1..(b - a) |-> a + j - 1]

\* the wrap-around slice of main
Indices(n, st, rl) ==
    Range(st, Min(n, st + rl)) \o (IF st + rl > n THEN Range(0, (st + rl) - n) ELSE <<>>)

RunLen(n) == IF max_rows <= 0 THEN n ELSE Min(max_rows, n)

NotStrOrBlank(existing) == ~IsStr(existing) \/ Strip(existing) = ""

\* isinstance(existing, str) and existing.strip()
IsResolved(existing) == IsStr(existing) /\ Strip(existing) # ""

\* str(x or ""): nan is truthy, and str(nan) is "nan"
StrOrEmpty(x) == IF x = "" THEN "" ELSE IF x = NaN THEN "nan" ELSE x

(***************************************************************************)
(* main.                                                                   *)
(***************************************************************************)
\* the CSV is empty: main returns, having written nothing
MainEmpty ==
    /\ pc = "start"
    /\ Len(csv_file.rows) = 0
    /\ df' = ensure_cols(read_csv(csv_file), csv_file.columns)
    /\ df0' = df'
    /\ csv0' = csv_file
    /\ state0' = state_file
    /\ pc' = "done"
    /\ UNCHANGED <<envVars, fileVars, start, run_len, indices, k, updated, checked,
                   processed, results, fjpVars, tierVars, obsVars, runs, valVars>>

\* read the table and the checkpoint, compute the window
MainStart ==
    /\ pc = "start"
    /\ Len(csv_file.rows) # 0
    /\ LET d == ensure_cols(read_csv(csv_file), csv_file.columns)
           n == Len(d)
           st == load_state.next_start_row % n
           rl == RunLen(n)
       IN  /\ df' = d
           /\ df0' = d
           /\ csv0' = csv_file
           /\ state0' = state_file
           /\ start' = st
           /\ run_len' = rl
           /\ indices' = Indices(n, st, rl)
    /\ k' = 1 /\ updated' = 0 /\ checked' = 0
    /\ pc' = "loop"
    /\ UNCHANGED <<envVars, fileVars, processed, results, fjpVars, tierVars, obsVars, runs, valVars>>

\* the row has a vacancies page already: continue
RowSkip ==
    /\ pc = "loop"
    /\ k <= Len(indices)
    /\ IsResolved(df[indices[k] + 1].Vacancies)
    /\ checked' = checked + 1
    /\ processed' = Append(processed, indices[k])
    /\ k' = k + 1
    /\ UNCHANGED <<envVars, fileVars, pc, df, df0, csv0, state0, start, run_len, indices, updated,
                   results, fjpVars, tierVars, obsVars, runs, valVars>>

\* the row has none: main calls find_jobs_page, which normalizes the root.
\* The ValueError of norm_root is caught nowhere and ends the run.
RowDiscover ==
    /\ pc = "loop"
    /\ k <= Len(indices)
    /\ ~IsResolved(df[indices[k] + 1].Vacancies)
    /\ LET u == Strip(StrOrEmpty(df[indices[k] + 1].URL))
           nr == norm_root(u)
       IN  /\ org_url' = u
           /\ IF nr.raises
              THEN /\ pc' = "crashed"
                   /\ UNCHANGED <<root, res>>
              ELSE IF nr.root = ""
              THEN /\ pc' = "record"
                   /\ res' = [vacancies |-> "", confidence |-> 0, type |-> "no_url", sitemap |-> ""]
                   /\ UNCHANGED root
              ELSE /\ pc' = "sitemap"
                   /\ root' = nr.root
                   /\ UNCHANGED res
    /\ UNCHANGED <<envVars, fileVars, loopVars, k, processed, jobs_url, sitemap_used,
                   tierVars, obsVars, runs, valVars>>

(***************************************************************************)
(* The network as the program sees it.                                     *)
(***************************************************************************)
\* safe_get(session, root + "/robots.txt")
RobotsResp(r) == IF r = SiteRoot THEN web.robots ELSE Failed

\* safe_get(session, sm)
SitemapResp(sm) == IF sm \in DOMAIN web.sm THEN web.sm[sm] ELSE Failed

\* safe_get(session, root)
HomeResp(r) == IF r = SiteRoot THEN web.home ELSE Failed

\* safe_head(session, root + path): a host that does not resolve raises
HeadResp(r, path) == IF r = SiteRoot THEN web.head[path] ELSE Raises

\* safe_get(session, url) of a page, which succeeds (ok) or not
PageGet(url, ok) == IF ok THEN PageOf(url) ELSE FetchFailed

(***************************************************************************)
(* find_from_sitemap.                                                      *)
(***************************************************************************)
\* line.lower().startswith("sitemap:")
IsSitemapLine(line) == line.field \in {"Sitemap", "sitemap", "SITEMAP"}

\* the sitemaps robots.txt declares, or the two default ones
SitemapList(r) ==
    LET resp == RobotsResp(r)
        lines == IF resp.ok THEN SelectSeq(resp.body, IsSitemapLine) ELSE <<>>
        declared == [j \in 1..Len(lines) |-> lines[j].value]
    IN  IF declared = <<>> THEN << r \o "/sitemap.xml", r \o "/sitemap_index.xml" >>
        ELSE declared

\* the loop over the sitemaps: sitemap_used and all_urls
RECURSIVE SitemapScan(_, _, _, _)
SitemapScan(sitemaps, j, used, all_urls) ==
    IF j > Len(sitemaps) THEN [sitemap_used |-> used, all_urls |-> all_urls]
    ELSE LET resp == SitemapResp(sitemaps[j])
         IN  IF resp.ok /\ resp.body # <<>>
             THEN SitemapScan(sitemaps, j + 1, sitemaps[j], all_urls \o resp.body)
             ELSE SitemapScan(sitemaps, j + 1, used, all_urls)

Scored(url, text) == [url |-> url, text |-> text, score |-> score_candidate(url, text)]

\* the same-site, job-looking URLs of the sitemaps, de-duplicated
SitemapCandidates(r, all_urls) ==
    LET Keep(u) == same_site(r, u) /\ looks_jobish(u)
        kept == Dedupe(SelectSeq(all_urls, Keep))
    IN  [j \in 1..Len(kept) |-> Scored(kept[j], "")]

(***************************************************************************)
(* find_jobs_page: after a tier has yielded url, validate and return, or   *)
(* go on to the next tier.                                                 *)
(***************************************************************************)
AfterTierNoReturn(tier, url) ==
    CASE tier = "sitemap" -> "homepage"
      [] tier = "homepage" -> "common"
      [] OTHER -> IF url # "" THEN "validate" ELSE "not_found"

AfterTier(tier, url) ==
    IF url # "" THEN "validate"
    ELSE CASE tier = "sitemap" -> "homepage"
           [] tier = "homepage" -> "common"
           [] OTHER -> "not_found"

\* find_from_sitemap up to the validation loop.  Without a candidate it
\* returns at once.
FindFromSitemap ==
    /\ pc = "sitemap"
    /\ LET sitemaps == SitemapList(root)
           scan == SitemapScan(sitemaps, 1, "", <<>>)
           candidates == SitemapCandidates(root, scan.all_urls)
       IN  /\ sitemap_used' = scan.sitemap_used
           /\ cands' = candidates
           /\ requests' = requests + 1 + Len(sitemaps)
           /\ top' = Take(SortedDesc(candidates), SITEMAP_TOP)
           /\ IF candidates = <<>>
              THEN /\ calls' = Append(calls, [tier |-> "sitemap", url |-> ""])
                   /\ pc' = AfterTier("sitemap", "")
              ELSE /\ calls' = calls
                   /\ pc' = "sitemap_validate"
    /\ pos' = 1 /\ best_url' = "" /\ best_score' = BEST_SCORE_INIT
    /\ validated' = <<>>
    /\ UNCHANGED <<envVars, fileVars, loopVars, k, processed, org_url, root, jobs_url, res,
                   fetched, runs, valVars>>

(***************************************************************************)
(* find_from_homepage.                                                     *)
(***************************************************************************)
\* the anchors kept: a non-empty href, on the same site, with a good text
\* hint or a job-looking URL; as (absu, text) pairs, de-duplicated
HomepageCandidates(r, anchors) ==
    LET HasHref(a) == Strip(a.href) # ""
        with_href == SelectSeq(anchors, HasHref)
        abs_pairs == [j \in 1..Len(with_href) |->
                        [absu |-> urljoin(r, Strip(with_href[j].href)), text |-> with_href[j].text]]
        Keep(c) == /\ same_site(r, c.absu)
                   /\ \/ \E h \in GOOD_TEXT_HINTS : In(h, c.text)
                      \/ looks_jobish(c.absu)
        kept == Dedupe(SelectSeq(abs_pairs, Keep))
    IN  [j \in 1..Len(kept) |-> Scored(kept[j].absu, kept[j].text)]

\* find_from_homepage up to the validation loop.  A failed fetch of the
\* homepage, or no candidate, returns "".
FindFromHomepage ==
    /\ pc = "homepage"
    /\ LET resp == HomeResp(root)
           candidates == IF resp.ok THEN HomepageCandidates(root, resp.body) ELSE <<>>
       IN  /\ cands' = candidates
           /\ top' = Take(SortedDesc(candidates), HOMEPAGE_TOP)
           /\ IF candidates = <<>>
              THEN /\ calls' = Append(calls, [tier |-> "homepage", url |-> ""])
                   /\ pc' = AfterTier("homepage", "")
              ELSE /\ calls' = calls
                   /\ pc' = "homepage_validate"
    /\ requests' = requests + 1
    /\ pos' = 1 /\ best_url' = "" /\ best_score' = BEST_SCORE_INIT
    /\ validated' = <<>>
    /\ UNCHANGED <<envVars, fileVars, loopVars, k, processed, org_url, root, jobs_url,
                   sitemap_used, res, fetched, runs, valVars>>

(***************************************************************************)
(* The loop over top of find_from_sitemap and of find_from_homepage.       *)
(***************************************************************************)
TierOf(p) == IF p = "sitemap_validate" THEN "sitemap" ELSE "homepage"

\* one iteration: validate top[j], keep it if its combined value is better
ValidateCandidate ==
    /\ pc \in {"sitemap_validate", "homepage_validate"}
    /\ pos <= Len(top)
    /\ \E ok \in BOOLEAN :
          LET conf == validate_jobs_page(PageGet(top[pos].url, ok)).confidence
              combined == top[pos].score + conf
          IN  /\ IF Better(combined, best_score)
                 THEN best_score' = combined /\ best_url' = top[pos].url
                 ELSE UNCHANGED <<best_score, best_url>>
              /\ validated' = Append(validated, [url |-> top[pos].url, text |-> top[pos].text,
                                                 score |-> top[pos].score, conf |-> conf])
              /\ fetched' = IF ok THEN fetched \cup {top[pos].url} ELSE fetched
    /\ requests' = requests + 1
    /\ pos' = pos + 1
    /\ UNCHANGED <<envVars, fileVars, loopVars, k, processed, fjpVars, top, pc, calls, cands,
                   runs, valVars>>

\* the loop is over: the tier returns best_url
TierReturn ==
    /\ pc \in {"sitemap_validate", "homepage_validate"}
    /\ pos > Len(top)
    /\ jobs_url' = best_url
    /\ calls' = Append(calls, [tier |-> TierOf(pc), url |-> best_url])
    /\ pc' = AfterTier(TierOf(pc), best_url)
    /\ UNCHANGED <<envVars, fileVars, loopVars, k, processed, org_url, root, sitemap_used, res,
                   tierVars, requests, fetched, cands, validated, runs, valVars>>

(***************************************************************************)
(* try_common_paths.                                                       *)
(***************************************************************************)
\* the paths whose HEAD resolves, which are the ones validated
Resolving(r) ==
    { j \in 1..Len(COMMON_PATHS) :
        ~HeadResp(r, COMMON_PATHS[j]).raised /\ HeadResp(r, COMMON_PATHS[j]).url # "" }

\* the loop over COMMON_PATHS from path j on: the URL returned, with the
\* requests issued and the pages fetched on the way
RECURSIVE CommonScan(_, _, _, _, _)
CommonScan(r, j, oks, reqs, got) ==
    IF j > Len(COMMON_PATHS) THEN [found |-> "", requests |-> reqs, fetched |-> got]
    ELSE LET h == HeadResp(r, COMMON_PATHS[j])
         IN  IF h.raised \/ h.url = ""
             THEN CommonScan(r, j + 1, oks, reqs + 1, got)
             ELSE LET v == validate_jobs_page(PageGet(h.url, oks[j]))
                      got2 == IF oks[j] THEN got \cup {h.url} ELSE got
                  IN  IF v.type # "unlikely_jobs"
                      THEN [found |-> h.url, requests |-> reqs + 2, fetched |-> got2]
                      ELSE CommonScan(r, j + 1, oks, reqs + 2, got2)

TryCommonPaths ==
    /\ pc = "common"
    /\ \E oks \in [Resolving(root) -> BOOLEAN] :
          LET scan == CommonScan(root, 1, oks, 0, {})
          IN  /\ jobs_url' = scan.found
              /\ requests' = requests + scan.requests
              /\ fetched' = fetched \cup scan.fetched
    /\ cands' = <<>>
    /\ validated' = <<>>
    /\ calls' = Append(calls, [tier |-> "common", url |-> jobs_url'])
    /\ pc' = AfterTier("common", jobs_url')
    /\ UNCHANGED <<envVars, fileVars, loopVars, k, processed, org_url, root, sitemap_used, res,
                   tierVars, runs, valVars>>

(***************************************************************************)
(* find_jobs_page: the two ways it returns once the root is known.         *)
(***************************************************************************)
\* a tier yielded jobs_url: validate it and return
FinalValidate ==
    /\ pc = "validate"
    /\ \E ok \in BOOLEAN :
          LET v == validate_jobs_page(PageGet(jobs_url, ok))
          IN  /\ res' = [vacancies |-> jobs_url, confidence |-> v.confidence,
                         type |-> v.type, sitemap |-> sitemap_used]
              /\ fetched' = IF ok THEN fetched \cup {jobs_url} ELSE fetched
    /\ requests' = requests + 1
    /\ pc' = "record"
    /\ UNCHANGED <<envVars, fileVars, loopVars, k, processed, org_url, root, jobs_url,
                   sitemap_used, tierVars, calls, cands, validated, runs, valVars>>

\* no tier yielded a URL
ReturnNotFound ==
    /\ pc = "not_found"
    /\ res' = [vacancies |-> "", confidence |-> 0, type |-> "not_found",
               sitemap |-> sitemap_used]
    /\ pc' = "record"
    /\ UNCHANGED <<envVars, fileVars, loopVars, k, processed, org_url, root, jobs_url,
                   sitemap_used, tierVars, obsVars, runs, valVars>>

(***************************************************************************)
(* main, the rest of the loop body and the end of the run.                 *)
(***************************************************************************)
\* the row of the table after main has written res onto it
Written(r, result) ==
    Row(r.URL, result.vacancies, result.confidence, result.type, result.sitemap)

\* find_jobs_page has returned res: write it if it holds a URL
RowRecord ==
    /\ pc = "record"
    /\ LET i == indices[k]
       IN  /\ df' = IF res.vacancies # ""
                    THEN [df EXCEPT ![i + 1] = Written(df[i + 1], res)]
                    ELSE df
           /\ updated' = IF res.vacancies # "" THEN updated + 1 ELSE updated
           /\ results' = Append(results, [row |-> i, res |-> res])
           /\ processed' = Append(processed, i)
    /\ checked' = checked + 1
    /\ k' = k + 1
    /\ pc' = "loop"
    /\ org_url' = "" /\ root' = "" /\ jobs_url' = "" /\ sitemap_used' = "" /\ res' = NoRes
    /\ top' = <<>> /\ pos' = 1 /\ best_url' = "" /\ best_score' = BEST_SCORE_INIT
    /\ calls' = <<>> /\ requests' = 0 /\ fetched' = {} /\ cands' = <<>> /\ validated' = <<>>
    /\ UNCHANGED <<envVars, fileVars, df0, csv0, state0, start, run_len, indices, runs,
                   valVars>>

\* the loop is over: save_state and to_csv
MainFinish ==
    /\ pc = "loop"
    /\ k > Len(indices)
    /\ state_file' = [exists |-> TRUE,
                      next_start_row |-> (start + run_len) % Len(df),
                      rows_processed_last_run |-> Len(indices),
                      rows_updated_last_run |-> updated]
    /\ csv_file' = to_csv(df)
    /\ pc' = "done"
    /\ UNCHANGED <<envVars, loopVars, k, processed, fjpVars, tierVars, obsVars, runs, valVars>>

\* the next invocation of the script
Rerun ==
    /\ pc \in {"done", "crashed"}
    /\ runs < MaxRuns
    /\ runs' = runs + 1
    /\ pc' = "start"
    /\ df' = <<>> /\ df0' = <<>> /\ csv0' = csv_file /\ state0' = state_file
    /\ start' = 0 /\ run_len' = 0 /\ indices' = <<>> /\ k' = 1
    /\ updated' = 0 /\ checked' = 0
    /\ processed' = <<>> /\ results' = <<>>
    /\ org_url' = "" /\ root' = "" /\ jobs_url' = "" /\ sitemap_used' = "" /\ res' = NoRes
    /\ top' = <<>> /\ pos' = 1 /\ best_url' = "" /\ best_score' = BEST_SCORE_INIT
    /\ calls' = <<>> /\ requests' = 0 /\ fetched' = {} /\ cands' = <<>> /\ validated' = <<>>
    /\ UNCHANGED <<envVars, fileVars, valVars>>

Next ==
    \/ MainEmpty
    \/ MainStart
    \/ RowSkip
    \/ RowDiscover
    \/ FindFromSitemap
    \/ FindFromHomepage
    \/ ValidateCandidate
    \/ TierReturn
    \/ TryCommonPaths
    \/ FinalValidate
    \/ ReturnNotFound
    \/ RowRecord
    \/ MainFinish
    \/ Rerun

Spec == Init /\ [][Next]_vars

(***************************************************************************)
(* The validator on its own: validate_jobs_page applied to every response  *)
(* a GET can have, for the pages of the catalogue.                         *)
(***************************************************************************)
PageUrls ==
    { "https://a.org/careers", "https://a.org/jobs", "https://jobs.a.org/",
      "https://a.org/vacancies", "https://a.org/recruitment", "https://a.org/work-with-us",
      "https://a.org/careers/vacancies", "https://www.a.org/jobs/" }

InitValidate ==
    /\ csv_file = [columns |-> AllCols, rows |-> <<>>]
    /\ state_file = NoState
    /\ max_rows = 0
    /\ web = SmallSite
    /\ pc = "validate_jobs_page"
    /\ Idle
    /\ runs = 1
    /\ val_in = FetchFailed /\ val_out = [confidence |-> 0, type |-> ""]

ValidateJobsPage ==
    /\ pc = "validate_jobs_page"
    /\ \E u \in PageUrls, resp \in PageResponses :
          /\ jobs_url' = u
          /\ val_in' = resp
          /\ val_out' = validate_jobs_page(resp)
    /\ UNCHANGED <<envVars, fileVars, pc, loopVars, k, processed, org_url, root, sitemap_used,
                   res, tierVars, obsVars, runs>>

NextValidate == ValidateJobsPage

SpecValidate == InitValidate /\ [][NextValidate]_vars

(***************************************************************************)
(* Properties.                                                             *)
(***************************************************************************)
TierOrder == << "sitemap", "homepage", "common" >>

\* find_jobs_page is past norm_root, with a root
InCall == root # ""

\* C1: find_jobs_page, for a non-empty root, runs the tiers in the order
\* sitemap, homepage, common paths; a tier runs only when every tier before it
\* yielded no URL; the URL returned is the one of the last tier run, and
\* {vacancies "", confidence 0, type "not_found"} is returned only when all
\* three tiers yielded none.
C1_TiersInOrder ==
    InCall =>
      /\ Len(calls) <= 3
      /\ \A m \in 1..Len(calls) :
            /\ calls[m].tier = TierOrder[m]
            /\ m < Len(calls) => calls[m].url = ""
      /\ pc \in {"sitemap", "sitemap_validate"} => calls = <<>>
      /\ pc \in {"homepage", "homepage_validate"} =>
            Len(calls) = 1 /\ calls[1].url = ""
      /\ pc = "common" => Len(calls) = 2 /\ calls[2].url = ""
      /\ pc = "record" =>
            /\ Len(calls) >= 1
            /\ LET last == calls[Len(calls)]
               IN  IF last.url # ""
                   THEN res.vacancies = last.url /\ res.type # "not_found"
                   ELSE /\ Len(calls) = 3
                        /\ res.vacancies = "" /\ res.confidence = 0
                        /\ res.type = "not_found"

\* the homepage tier yielded the URL returned, and the common paths were
\* never tried
C1_Witness ==
    /\ pc = "record" /\ InCall
    /\ Len(calls) = 2 /\ calls[1].url = "" /\ calls[2].url # ""
    /\ res.vacancies = calls[2].url

\* a non-empty, non-whitespace string
NonEmptyText(x) == x # NaN /\ Strip(x) # ""

AllResolved(t) == \A r \in 1..Len(t) : NonEmptyText(t[r].Vacancies)

ClaimRunLen(n, b) == IF b <= 0 THEN n ELSE Min(b, n)
ClaimWindow(n, s, b) == [m \in 1..ClaimRunLen(n, b) |-> ((s % n) + m - 1) % n]
ClaimNextStart(n, s, b) == ((s % n) + ClaimRunLen(n, b)) % n

StoredStart == IF state0.exists THEN state0.next_start_row ELSE 0

\* C3: a run of main over n >= 1 rows processes exactly the min(b, n) row
\* indices from s mod n on, wrapping, in that order, and writes next_start_row
\* = ((s mod n) + min(b, n)) mod n.
C3_WindowProcessed ==
    (pc \in {"done", "crashed"} /\ Len(df0) >= 1) =>
       /\ processed = ClaimWindow(Len(df0), StoredStart, max_rows)
       /\ state_file.exists
       /\ state_file.next_start_row = ClaimNextStart(Len(df0), StoredStart, max_rows)

\* what C3 states holds of every run that reaches the end of main
WindowOfCompletedRun ==
    (pc = "done" /\ Len(df0) >= 1) =>
       /\ processed = ClaimWindow(Len(df0), StoredStart, max_rows)
       /\ state_file.exists
       /\ state_file.next_start_row = ClaimNextStart(Len(df0), StoredStart, max_rows)
       /\ state_file.rows_processed_last_run = ClaimRunLen(Len(df0), max_rows)

\* C4: a non-empty vacancies returned by find_jobs_page was fetched
\* successfully by the validator during the call, and never comes with type
\* "unreachable".
C4_ReturnedUrlReachable ==
    (pc = "record" /\ res.vacancies # "") =>
       /\ res.vacancies \in fetched
       /\ res.type # "unreachable"

\* C5: when the run ends, every row find_jobs_page was called for holds the
\* confidence, type and sitemap of the result it returned, a not_found or
\* no_url result included.
C5_ResultsRecorded ==
    pc = "done" =>
       \A m \in 1..Len(results) :
          LET r == df[results[m].row + 1]
              out == results[m].res
          IN  /\ r.Vacancies_Confidence = out.confidence
              /\ r.Vacancies_Type = out.type
              /\ r.Vacancies_Sitemap = out.sitemap

\* C6: no failure of the discovery of one organization leaves
\* find_jobs_page: the run is never ended by one.
C6_NoFailurePropagates == pc # "crashed"

\* C7: for a row whose URL is empty or missing, find_jobs_page returns
\* {vacancies "", confidence 0, type "no_url", sitemap ""} and no network
\* request is issued, no tier run.
C7_MissingUrlNoRequest ==
    (pc = "record" /\ df[indices[k] + 1].URL \in {NaN, ""}) =>
       /\ requests = 0
       /\ calls = <<>>
       /\ res = [vacancies |-> "", confidence |-> 0, type |-> "no_url", sitemap |-> ""]

Labels == {"jobs_page", "maybe_jobs", "unlikely_jobs", "unreachable"}

\* C8: validate_jobs_page returns a confidence within 0..100 and the label
\* the confidence determines: jobs_page iff the page loaded and confidence
\* >= 70, maybe_jobs iff 45 <= confidence <= 69, unlikely_jobs iff the page
\* loaded and confidence <= 44, (0, unreachable) iff the fetch failed.
C8_LabelFromConfidence ==
    val_out.type # "" =>
       /\ val_out.confidence \in 0..100
       /\ val_out.type \in Labels
       /\ val_out.type = "jobs_page" <=> (val_in.ok /\ val_out.confidence >= 70)
       /\ val_out.type = "maybe_jobs" <=> (val_out.confidence >= 45 /\ val_out.confidence <= 69)
       /\ val_out.type = "unlikely_jobs" <=> (val_in.ok /\ val_out.confidence <= 44)
       /\ val_out = [confidence |-> 0, type |-> "unreachable"] <=> ~val_in.ok

\* a page that loaded with the negative hint only: 30 - 35, clamped to 0
C8_Witness ==
    /\ val_in = [ok |-> TRUE, title |-> FALSE, apply |-> FALSE, vac |-> FALSE, bad |-> TRUE]
    /\ val_out = [confidence |-> 0, type |-> "unlikely_jobs"]

\* the first sitemap, in the order fetched, that yields an entry
RECURSIVE FirstYielding(_, _)
FirstYielding(sitemaps, m) ==
    IF m > Len(sitemaps) THEN ""
    ELSE IF SitemapResp(sitemaps[m]).ok /\ SitemapResp(sitemaps[m]).body # <<>>
    THEN sitemaps[m]
    ELSE FirstYielding(sitemaps, m + 1)

\* C9: sitemap_used is the first sitemap URL, in the order fetched, whose
\* fetch succeeded with at least one <loc> entry, and "" iff there is none.
C9_FirstSitemapUsed ==
    (InCall /\ pc # "sitemap") => sitemap_used = FirstYielding(SitemapList(root), 1)

Combined(v) == v.score + v.conf

\* the first position of validated whose combined value is the greatest
FirstBest ==
    CHOOSE a \in 1..Len(validated) :
       /\ \A b \in 1..Len(validated) : Combined(validated[b]) <= Combined(validated[a])
       /\ \A b \in 1..(a - 1) : Combined(validated[b]) < Combined(validated[a])

\* where a validated candidate stands in the first-seen list
SeenAt(v) ==
    CHOOSE q \in 1..Len(cands) :
       cands[q] = [url |-> v.url, text |-> v.text, score |-> v.score]

TopOf(tier) == IF tier = "sitemap" THEN SITEMAP_TOP ELSE HOMEPAGE_TOP

\* a tier has validated its candidates and returned
TierDone == validated # <<>> /\ pc \notin {"sitemap_validate", "homepage_validate"}

\* C10: the sitemap and the homepage tier validate the first 6 (8) candidates
\* of the list sorted by score, descending, equal scores in first-seen order,
\* and return the validated candidate whose score + confidence is the
\* greatest, the first of them in that list when several are; with a
\* candidate there is always a URL returned.
C10_BestCandidateReturned ==
    /\ (pc \in {"sitemap_validate", "homepage_validate"} /\ cands # <<>>) =>
          IF validated = <<>> THEN best_url = ""
          ELSE best_url = validated[FirstBest].url
    /\ TierDone =>
          LET n == Len(validated)
              tier == calls[Len(calls)].tier
          IN  /\ jobs_url # ""
              /\ jobs_url = validated[FirstBest].url
              /\ n = Min(Len(cands), TopOf(tier))
              /\ \A a \in 1..n :
                    /\ validated[a].score = score_candidate(validated[a].url, validated[a].text)
                    /\ \E q \in 1..Len(cands) :
                          cands[q] = [url |-> validated[a].url, text |-> validated[a].text,
                                      score |-> validated[a].score]
              /\ \A a, b \in 1..n :
                    a < b =>
                       \/ validated[a].score > validated[b].score
                       \/ /\ validated[a].score = validated[b].score
                          /\ SeenAt(validated[a]) < SeenAt(validated[b])
              /\ \A q \in 1..Len(cands) :
                    (\A a \in 1..n : SeenAt(validated[a]) # q) =>
                       /\ cands[q].score <= validated[n].score
                       /\ cands[q].score = validated[n].score => SeenAt(validated[n]) < q

\* more candidates than are validated, two of the validated ones share the
\* greatest combined value, and the earlier of the two is returned
C10_Witness ==
    /\ TierDone
    /\ Len(cands) > Len(validated)
    /\ \E a, b \in 1..Len(validated) :
          /\ a < b /\ a = FirstBest
          /\ Combined(validated[a]) = Combined(validated[b])
          /\ validated[a].url # validated[b].url
          /\ jobs_url = validated[a].url

====
